---------------------------- MODULE Spec2Model ----------------------------
(***************************************************************************)
(* Model of the signal primitives of rust-signals:                         *)
(*   - Mutable and its derived signals      (src/src/signal/mutable.rs)    *)
(*   - the Sender/Receiver channel          (src/src/signal/mutable.rs)    *)
(*   - Broadcaster and its derived signals  (src/src/signal/broadcaster.rs)*)
(* A step is one access to an atomic or to lock-guarded state that another *)
(* thread can observe; a lock acquisition is taken together with the first *)
(* access it guards, and a release with the last.                          *)
(***************************************************************************)
EXTENDS Integers, Sequences, FiniteSets, TLC

\* ------------------------------------------------------------------------
\* Bounds of the model
\* ------------------------------------------------------------------------
\* values a cell or a channel can hold are 0..MaxVal
MaxVal == 1
\* number of signals that can be derived from the Mutables in one run
MaxObs == 2
\* number of signals that can be derived from the Broadcaster in one run
MaxBObs == 2
\* polls of the wrapped Signal are counted up to MaxPolls
MaxPolls == 3

Vals == 0..MaxVal
\* two Mutables, so that swap has two distinct cells to work on
Cells == {1, 2}
\* caller threads that share references to the Mutables
Threads == {1, 2}
Obs == 1..MaxObs
NoThread == 0
\* the signals derived from the Broadcaster; CountObs are those of the
\* three-observer scenario
CountObs == {1, 2, 3}
BObs == CountObs
\* the thread on which the wrapped Signal invokes the notifier's Wake::wake
WakeThread == 0
Procs == BObs \cup {WakeThread}
NoProc == -1

\* results of poll_change: Async::Ready(Some(v)), Async::Ready(None), Async::Pending
Changed(v) == <<"changed", v>>
Terminated == <<"terminated">>
Pending == <<"pending">>
NoResult == <<"none">>

VARIABLES
    \* ---- Mutable: MutableState behind Arc<RwLock<..>>, one per cell ----
    value,        \* MutableState::value
    senders,      \* MutableState::senders
    receivers,    \* MutableState::receivers, a Vec of Weak<MutableSignalState>
    wlock,        \* the thread holding the RwLock for writing, or NoThread
    rlock,        \* the signals holding the RwLock for reading
    handle,       \* TRUE while the Mutable handle of the cell has not been dropped
    \* ---- MutableSignalState, one per derived signal ----
    ostate,       \* "unborn", "alive" (strong count > 0) or "dropped"
    ocell,        \* MutableSignalState::state, the cell it was derived from
    has_changed,  \* MutableSignalState::has_changed
    waker,        \* MutableSignalState::waker is Some(..)
    opc,          \* position of the signal's poll_change: "idle" or "unchanged"
    \* ---- caller threads ----
    top,          \* "swap1" while the thread is inside swap, else "idle"
    tcell,        \* swap: the Mutable it was called on
    tother,       \* swap: the other Mutable
    \* ---- history ----
    result,       \* what the last poll_change of a signal returned
    npolls,       \* polls of a signal since the last write to or the drop of
                  \* its cell, capped at 2
    woken,        \* the wake handle stored by the last Pending poll has been invoked
    unseen,       \* k > 0: k writes to its cell since the signal's last poll,
                  \* capped at 2; -k: its last poll came after k such writes
                  \* and no write has happened since
    written,      \* the cell has been written since it was created
    latest,       \* the value the cell was created with or the last write stored
    flagAtDrop,   \* has_changed of the signal when its Mutable was dropped
    ret           \* <<v>>: the last replace or replace_with returned v;
                  \* <<>> before the first one

mvars == <<value, senders, receivers, wlock, rlock, handle, ostate, ocell,
           has_changed, waker, opc, top, tcell, tother, result, npolls,
           woken, unseen, written, latest, flagAtDrop, ret>>

VARIABLES
    \* ---- channel: Inner behind Arc<Mutex<..>> ----
    inner_value,   \* Inner::value, <<>> for None and <<v>> for Some(v)
    inner_waker,   \* Inner::waker is Some(..)
    inner_dropped, \* Inner::dropped
    strong,        \* strong count of the Arc: the Receiver and upgraded Weaks
    rx,            \* the Receiver: "alive" or "dropped"
    spc,           \* position of the Sender's thread
    sarg,          \* send: the value passed
    sres,          \* what the last send returned
    \* ---- history ----
    rxAtCall,      \* the Receiver was alive when the last send was called
    cresult,       \* what the last poll_change of the Receiver returned
    cunseen,       \* k > 0: k values stored since the Receiver's last poll,
                   \* capped at 2; -k: its last poll came after k stores and
                   \* nothing has been stored since
    clatest,       \* the value last stored by channel() or send
    droppedAtPoll, \* Inner::dropped at the Receiver's last poll
    cwoken         \* the wake handle stored by the last Pending poll has been invoked

cvars == <<inner_value, inner_waker, inner_dropped, strong, rx, spc, sarg,
           sres, rxAtCall, cresult, cunseen, clatest, droppedAtPoll, cwoken>>

VARIABLES
    \* ---- the Signal wrapped by the Broadcaster ----
    src_changed,   \* it has a change it has not reported yet
    src_value,     \* its current value
    src_term,      \* it has ended: it reports Ready(None) once nothing is left
    src_waker,     \* it holds the waker of its last Pending poll (the notifier)
    upolls,        \* history: its poll_change calls since its last change,
                   \* capped at MaxPolls
    \* ---- BroadcasterSharedState and BroadcasterNotifier ----
    is_waiting,    \* BroadcasterNotifier::is_waiting
    targets,       \* BroadcasterNotifier::targets, a Vec of Weak<BroadcasterStatus>
    tlock,         \* the process holding the mutex of targets, or NoProc
    widx,          \* notify: the index retain has reached in targets
    siglock,       \* the process holding the mutex of signal, or NoProc
    cache,         \* BroadcasterSharedState::value, <<>> for None
    \* ---- BroadcasterStatus and the poll of each derived signal ----
    bstate,        \* "unborn", "alive" or "dropped"
    b_has_changed, \* BroadcasterStatus::has_changed
    b_waker,       \* BroadcasterStatus::waker is Some(..)
    bpc,           \* position of each process: the derived signals' polls
                   \* and the thread that runs Wake::wake
    bchange,       \* poll_underlying: the local `change`
    \* ---- history ----
    bresult,       \* what the last poll_change of a derived signal returned
    bwoken,        \* the wake handle stored by the last Pending poll has been invoked
    bsince,        \* "none": the signal has returned no changed result yet;
                   \* "stale": the wrapped Signal has reported no new change
                   \* since the signal's last changed result; "fresh": it
                   \* has; "double": the signal returned a changed result
                   \* while "stale"
    src_done       \* 0: the wrapped Signal has not returned Ready(None);
                   \* 1: it has; 2: it has been polled again after that

bvars == <<src_changed, src_value, src_term, src_waker, upolls, is_waiting,
           targets, tlock, widx, siglock, cache, bstate, b_has_changed,
           b_waker, bpc, bchange, bresult, bwoken, bsince, src_done>>

vars == <<mvars, cvars, bvars>>

Range(s) == {s[i] : i \in 1..Len(s)}

\* ------------------------------------------------------------------------
\* Mutable
\* ------------------------------------------------------------------------

\* Mutable::new(value) for both cells: one sender, no receivers.
MutableInit ==
    /\ value \in [Cells -> Vals]
    /\ senders = [c \in Cells |-> 1]
    /\ receivers = [c \in Cells |-> <<>>]
    /\ wlock = [c \in Cells |-> NoThread]
    /\ rlock = [c \in Cells |-> {}]
    /\ handle = [c \in Cells |-> TRUE]
    /\ ostate = [o \in Obs |-> "unborn"]
    /\ ocell = [o \in Obs |-> 1]
    /\ has_changed = [o \in Obs |-> FALSE]
    /\ waker = [o \in Obs |-> FALSE]
    /\ opc = [o \in Obs |-> "idle"]
    /\ top = [t \in Threads |-> "idle"]
    /\ tcell = [t \in Threads |-> 1]
    /\ tother = [t \in Threads |-> 1]
    /\ result = [o \in Obs |-> NoResult]
    /\ npolls = [o \in Obs |-> 0]
    /\ woken = [o \in Obs |-> FALSE]
    /\ unseen = [o \in Obs |-> 0]
    /\ written = [c \in Cells |-> FALSE]
    /\ latest = value
    /\ flagAtDrop = [o \in Obs |-> FALSE]
    /\ ret = <<>>

\* receiver.upgrade() succeeds: the signal's state is still alive
Upgrades(o) == ostate[o] = "alive"

\* the receivers of cell c whose Weak still upgrades
LiveReceivers(c) == {o \in Range(receivers[c]) : Upgrades(o)}

\* a retain that keeps every entry
NotifyReceiversKeep(c) == receivers[c]

\* MutableState::notify, the retain: dead entries are removed
NotifyReceivers(c) == SelectSeq(receivers[c], Upgrades)

\* notify that stops after the first live receiver
NotifyHasChangedFirst(hc, c, flag) ==
    [o \in Obs |-> IF o \in LiveReceivers(c) /\ flag /\ o = Head(NotifyReceivers(c))
                   THEN TRUE ELSE hc[o]]

\* MutableState::notify, the store to has_changed of every live receiver
NotifyHasChanged(hc, c, flag) ==
    [o \in Obs |-> IF o \in LiveReceivers(c) /\ flag THEN TRUE ELSE hc[o]]

\* a notify that leaves the stored wakers where they are
NotifyWakerKeep(wk, c) == wk

\* MutableState::notify, lock.take(): the stored waker of every live receiver
NotifyWaker(wk, c) ==
    [o \in Obs |-> IF o \in LiveReceivers(c) THEN FALSE ELSE wk[o]]

\* MutableState::notify, waker.wake() on every waker that was taken
NotifyWoken(wn, c) ==
    [o \in Obs |-> IF o \in LiveReceivers(c) /\ waker[o] THEN TRUE ELSE wn[o]]

\* a write lock that does not wait for the readers
CanWriteIgnoringReaders(c) == wlock[c] = NoThread

\* self.0.write(): blocks until no reader and no writer holds the lock
CanWrite(c) == wlock[c] = NoThread /\ rlock[c] = {}

\* self.0.state.read(): blocks while a writer holds the lock
CanRead(c) == wlock[c] = NoThread

\* a thread can call a method of the Mutable of cell c: the handle exists
Usable(c) == handle[c]

\* no thread is inside a call on cell c (needed to move the handle into drop)
Unused(c) == \A t \in Threads : top[t] = "idle" \/ (tcell[t] # c /\ tother[t] # c)

\* some caller thread is free to make a call
Idle == \E t \in Threads : top[t] = "idle"

\* history of a write to the cells in cs
NoteWrite(cs, newval) ==
    /\ written' = [c \in Cells |-> written[c] \/ c \in cs]
    /\ latest' = [c \in Cells |-> IF c \in cs THEN newval[c] ELSE latest[c]]
    /\ npolls' = [o \in Obs |-> IF ostate[o] = "alive" /\ ocell[o] \in cs
                                THEN 0 ELSE npolls[o]]
    /\ unseen' = [o \in Obs |-> IF ostate[o] = "alive" /\ ocell[o] \in cs
                                THEN (IF unseen[o] <= 0 THEN 1 ELSE 2)
                                ELSE unseen[o]]

\* a write that leaves the old value in the cell
StoreValueKeep(c, v) == value

\* state.value = value
StoreValue(c, v) == [value EXCEPT ![c] = v]

\* A write under the write lock of cell c: store v, notify(true), release.
Write(c, v) ==
    /\ Idle
    /\ Usable(c)
    /\ CanWrite(c)
    /\ value' = StoreValue(c, v)
    /\ receivers' = [receivers EXCEPT ![c] = NotifyReceivers(c)]
    /\ has_changed' = NotifyHasChanged(has_changed, c, TRUE)
    /\ waker' = NotifyWaker(waker, c)
    /\ woken' = NotifyWoken(woken, c)
    /\ NoteWrite({c}, [x \in Cells |-> v])
    /\ UNCHANGED <<senders, wlock, rlock, handle, ostate, ocell, opc, top,
                   tcell, tother, result, flagAtDrop>>

\* Mutable::set
Set(c, v) == Write(c, v) /\ UNCHANGED ret

\* a replace that returns the value it was given
ReplacedNew(c, v) == v

\* std::mem::replace(&mut state.value, value): the value that was in the cell
Replaced(c, v) == value[c]

\* Mutable::replace: returns the previous value
Replace(c, v) == Write(c, v) /\ ret' = <<Replaced(c, v)>>

\* Mutable::replace_with, called with f = |x| (*x + d) % (MaxVal + 1), which
\* leaves *x as it is
ReplaceWith(c, d) ==
    LET new_value == (value[c] + d) % (MaxVal + 1)
    IN Write(c, new_value) /\ ret' = <<Replaced(c, new_value)>>

\* Mutable::swap, line 103: the write lock of self.
SwapLockSelf(t, a, b) ==
    /\ top[t] = "idle"
    /\ a # b
    /\ Usable(a) /\ Usable(b)
    /\ CanWrite(a)
    /\ wlock' = [wlock EXCEPT ![a] = t]
    /\ top' = [top EXCEPT ![t] = "swap1"]
    /\ tcell' = [tcell EXCEPT ![t] = a]
    /\ tother' = [tother EXCEPT ![t] = b]
    /\ UNCHANGED <<value, senders, receivers, rlock, handle, ostate, ocell,
                   has_changed, waker, opc, result, npolls, woken, unseen,
                   written, latest, flagAtDrop>>
    /\ UNCHANGED ret

\* Mutable::swap, lines 104-110, with self's lock held: the write lock of
\* other, exchange the values, notify(true) on both cells, release both locks.
SwapLockOther(t) ==
    /\ top[t] = "swap1"
    /\ CanWrite(tother[t])
    /\ LET a == tcell[t]
           b == tother[t]
           nv == [value EXCEPT ![a] = value[b], ![b] = value[a]]
       IN /\ value' = nv
          /\ receivers' = [receivers EXCEPT ![a] = NotifyReceivers(a),
                                            ![b] = NotifyReceivers(b)]
          /\ has_changed' = NotifyHasChanged(NotifyHasChanged(has_changed, a, TRUE), b, TRUE)
          /\ waker' = NotifyWaker(NotifyWaker(waker, a), b)
          /\ woken' = NotifyWoken(NotifyWoken(woken, a), b)
          /\ wlock' = [wlock EXCEPT ![a] = NoThread]
          /\ NoteWrite({a, b}, nv)
    /\ top' = [top EXCEPT ![t] = "idle"]
    /\ tcell' = [tcell EXCEPT ![t] = 1]
    /\ tother' = [tother EXCEPT ![t] = 1]
    /\ UNCHANGED <<senders, rlock, handle, ostate, ocell, opc, result,
                   flagAtDrop>>
    /\ UNCHANGED ret

\* a signal state that starts with has_changed = false
InitialHasChangedFalse == FALSE

\* MutableSignalState::new, line 54: has_changed starts true
InitialHasChanged == TRUE

\* the next signal state to allocate
NextObs == CHOOSE o \in Obs : ostate[o] = "unborn" /\ \A p \in Obs : p < o => ostate[p] # "unborn"

\* Mutable::signal / signal_cloned -> MutableSignalState::new: the state is
\* allocated with has_changed = true and no waker, and its Weak is pushed
\* under the write lock.
DeriveSignal(c) ==
    /\ Idle
    /\ Usable(c)
    /\ \E o \in Obs : ostate[o] = "unborn"
    /\ CanWrite(c)
    /\ LET o == NextObs
       IN /\ ostate' = [ostate EXCEPT ![o] = "alive"]
          /\ ocell' = [ocell EXCEPT ![o] = c]
          /\ has_changed' = [has_changed EXCEPT ![o] = InitialHasChanged]
          /\ waker' = [waker EXCEPT ![o] = FALSE]
          /\ receivers' = [receivers EXCEPT ![c] = Append(@, o)]
    /\ UNCHANGED <<value, senders, wlock, rlock, handle, opc, top, tcell,
                   tother, result, npolls, woken, unseen, written, latest, flagAtDrop>>
    /\ UNCHANGED ret

\* a drop that never notifies
DropNotifiesNever(n, c) == FALSE

\* Drop for Mutable, line 188: the last sender is gone and there are receivers
DropNotifies(n, c) == n = 0 /\ Len(receivers[c]) > 0

\* Drop for Mutable: the handle is moved into drop (no other call on it can
\* be running); under the write lock senders -= 1, and when it reaches zero
\* and there are receivers, notify(false) and clear the receivers.
DropMutable(c) ==
    /\ Idle
    /\ Usable(c)
    /\ Unused(c)
    /\ CanWrite(c)
    /\ handle' = [handle EXCEPT ![c] = FALSE]
    /\ LET n == senders[c] - 1
           last == DropNotifies(n, c)
       IN /\ senders' = [senders EXCEPT ![c] = n]
          /\ receivers' = [receivers EXCEPT ![c] = IF last THEN <<>> ELSE @]
          /\ has_changed' = IF last THEN NotifyHasChanged(has_changed, c, FALSE)
                                    ELSE has_changed
          /\ waker' = IF last THEN NotifyWaker(waker, c) ELSE waker
          /\ woken' = IF last THEN NotifyWoken(woken, c) ELSE woken
    /\ flagAtDrop' = [o \in Obs |-> IF ostate[o] = "alive" /\ ocell[o] = c
                                    THEN has_changed[o] ELSE flagAtDrop[o]]
    /\ npolls' = [o \in Obs |-> IF ostate[o] = "alive" /\ ocell[o] = c
                                THEN 0 ELSE npolls[o]]
    /\ UNCHANGED <<value, wlock, rlock, ostate, ocell, opc, top, tcell, tother,
                   result, unseen, written, latest>>
    /\ UNCHANGED ret

\* a poll that delivers a change only while the Mutable has a sender
DeliversOnlyWhileAlive(o) == has_changed[o] /\ senders[ocell[o]] > 0

\* poll_change, line 207: has_changed.swap(false) returned true
Delivers(o) == has_changed[o]

\* poll_change of MutableSignal / MutableSignalCloned, lines 204-208 and
\* 232-236: take the read lock and swap has_changed to false. When it was
\* set, return Ready(Some(lock.value)) and release the lock; else go on
\* holding it.
PollSwap(o) ==
    /\ ostate[o] = "alive"
    /\ opc[o] = "idle"
    /\ CanRead(ocell[o])
    /\ has_changed' = [has_changed EXCEPT ![o] = FALSE]
    /\ IF Delivers(o)
       THEN /\ result' = [result EXCEPT ![o] = Changed(value[ocell[o]])]
            /\ npolls' = [npolls EXCEPT ![o] = IF @ < 2 THEN @ + 1 ELSE @]
            /\ woken' = [woken EXCEPT ![o] = FALSE]
            /\ unseen' = [unseen EXCEPT ![o] = IF @ > 0 THEN 0 - @ ELSE 0]
            /\ UNCHANGED <<rlock, opc>>
       ELSE /\ rlock' = [rlock EXCEPT ![ocell[o]] = @ \cup {o}]
            /\ opc' = [opc EXCEPT ![o] = "unchanged"]
            /\ UNCHANGED <<result, npolls, woken, unseen>>
    /\ UNCHANGED <<value, senders, receivers, wlock, handle, ostate, ocell,
                   waker, top, tcell, tother, written, latest, flagAtDrop>>
    /\ UNCHANGED ret

\* a poll that does not look at the sender count
UnchangedNoSenderCheck(o) == Pending

\* what poll_change returns when has_changed was not set, lines 210-217
Unchanged(o) == IF senders[ocell[o]] = 0 THEN Terminated ELSE Pending

\* poll_change, lines 210-217 and 238-245, still under the read lock:
\* Ready(None) when there is no sender, else store the waker and return
\* Pending. The lock is released on return.
PollFinish(o) ==
    /\ opc[o] = "unchanged"
    /\ LET r == Unchanged(o)
       IN /\ result' = [result EXCEPT ![o] = r]
          /\ waker' = [waker EXCEPT ![o] = IF r = Pending THEN TRUE ELSE @]
    /\ woken' = [woken EXCEPT ![o] = FALSE]
    /\ unseen' = [unseen EXCEPT ![o] = IF @ > 0 THEN 0 - @ ELSE 0]
    /\ npolls' = [npolls EXCEPT ![o] = IF @ < 2 THEN @ + 1 ELSE @]
    /\ rlock' = [rlock EXCEPT ![ocell[o]] = @ \ {o}]
    /\ opc' = [opc EXCEPT ![o] = "idle"]
    /\ UNCHANGED <<value, senders, receivers, wlock, handle, ostate, ocell,
                   has_changed, top, tcell, tother, written, latest,
                   flagAtDrop>>
    /\ UNCHANGED ret

\* The derived signal is dropped: its MutableSignalState is freed, the Weak in
\* receivers stays behind.
DropSignal(o) ==
    /\ ostate[o] = "alive"
    /\ opc[o] = "idle"
    /\ ostate' = [ostate EXCEPT ![o] = "dropped"]
    /\ has_changed' = [has_changed EXCEPT ![o] = FALSE]
    /\ waker' = [waker EXCEPT ![o] = FALSE]
    /\ result' = [result EXCEPT ![o] = NoResult]
    /\ npolls' = [npolls EXCEPT ![o] = 0]
    /\ woken' = [woken EXCEPT ![o] = FALSE]
    /\ unseen' = [unseen EXCEPT ![o] = 0]
    /\ flagAtDrop' = [flagAtDrop EXCEPT ![o] = FALSE]
    /\ UNCHANGED <<value, senders, receivers, wlock, rlock, handle, ocell, opc,
                   top, tcell, tother, written, latest>>
    /\ UNCHANGED ret

\* ------------------------------------------------------------------------
\* Sender / Receiver
\* ------------------------------------------------------------------------

\* results of Sender::send: Ok(()) and Err(value)
Ok == <<"ok">>
Err(v) == <<"err", v>>

\* channel(initial_value): the value is stored, no waker, not dropped; the
\* Receiver owns the Arc and the Sender a Weak.
Channel(initial) ==
    /\ inner_value = <<initial>>
    /\ inner_waker = FALSE
    /\ inner_dropped = FALSE
    /\ strong = 1
    /\ rx = "alive"
    /\ spc = "idle"
    /\ sarg = 0
    /\ sres = NoResult
    /\ rxAtCall = TRUE
    /\ cresult = NoResult
    /\ cunseen = 1
    /\ clatest = initial
    /\ droppedAtPoll = FALSE
    /\ cwoken = FALSE

ChannelInit == \E initial \in Vals : Channel(initial)

\* a send that does not notice that the Receiver is gone
CanUpgradeAlways == TRUE

\* self.inner.upgrade() succeeds while the strong count is not zero
CanUpgrade == strong > 0

\* The last Arc is gone: the Inner is freed, with whatever it held.
Freed(n) ==
    IF n = 0
    THEN /\ inner_value' = <<>>
         /\ inner_waker' = FALSE
         /\ inner_dropped' = FALSE
    ELSE UNCHANGED <<inner_value, inner_waker, inner_dropped>>

\* Sender::send, line 271: upgrade the Weak; Err(value) when that fails.
SendUpgrade(v) ==
    /\ spc = "idle"
    /\ sarg' = v
    /\ rxAtCall' = (rx = "alive")
    /\ IF CanUpgrade
       THEN /\ strong' = strong + 1
            /\ spc' = "send"
            /\ sres' = NoResult
       ELSE /\ sres' = Err(v)
            /\ UNCHANGED <<strong, spc>>
    /\ UNCHANGED <<inner_value, inner_waker, inner_dropped, rx, cresult,
                   cunseen, clatest, droppedAtPoll, cwoken>>

\* a notify that finds no waker to invoke
TookWakerNever == FALSE

\* Inner::notify, line 258: lock.waker.take() returned a waker
TookWaker == inner_waker

\* Sender::send, lines 272-276, under the mutex: inner.value = Some(value),
\* then Inner::notify takes the waker and releases the mutex.
SendStore ==
    /\ spc = "send"
    /\ inner_value' = <<sarg>>
    /\ inner_waker' = FALSE
    /\ spc' = IF TookWaker THEN "sendWake" ELSE "sendRet"
    /\ clatest' = sarg
    /\ cunseen' = IF cunseen <= 0 THEN 1 ELSE 2
    /\ UNCHANGED <<inner_dropped, strong, rx, sarg, sres, rxAtCall, cresult,
                   droppedAtPoll, cwoken>>

\* Inner::notify, line 260: waker.wake(), outside the mutex.
SenderWake ==
    /\ spc \in {"sendWake", "dropWake"}
    /\ cwoken' = TRUE
    /\ spc' = IF spc = "sendWake" THEN "sendRet" ELSE "dropRet"
    /\ UNCHANGED <<inner_value, inner_waker, inner_dropped, strong, rx, sarg,
                   sres, rxAtCall, cresult, cunseen, clatest, droppedAtPoll>>

\* Sender::send, line 278: the upgraded Arc goes out of scope, Ok(()).
SendReturn ==
    /\ spc = "sendRet"
    /\ strong' = strong - 1
    /\ Freed(strong - 1)
    /\ sres' = Ok
    /\ spc' = "idle"
    /\ UNCHANGED <<rx, sarg, rxAtCall, cresult, cunseen, clatest,
                   droppedAtPoll, cwoken>>

\* Drop for Sender, line 288: upgrade the Weak; nothing to do when that fails.
SenderDropUpgrade ==
    /\ spc = "idle"
    /\ IF CanUpgrade
       THEN /\ strong' = strong + 1
            /\ spc' = "drop"
       ELSE /\ spc' = "gone"
            /\ UNCHANGED strong
    /\ UNCHANGED <<inner_value, inner_waker, inner_dropped, rx, sarg, sres,
                   rxAtCall, cresult, cunseen, clatest, droppedAtPoll, cwoken>>

\* Drop for Sender, lines 289-293, under the mutex: inner.dropped = true,
\* then Inner::notify takes the waker and releases the mutex.
SenderDropStore ==
    /\ spc = "drop"
    /\ inner_dropped' = TRUE
    /\ inner_waker' = FALSE
    /\ spc' = IF TookWaker THEN "dropWake" ELSE "dropRet"
    /\ UNCHANGED <<inner_value, strong, rx, sarg, sres, rxAtCall, cresult,
                   cunseen, clatest, droppedAtPoll, cwoken>>

\* Drop for Sender, line 294: the upgraded Arc goes out of scope.
SenderDropReturn ==
    /\ spc = "dropRet"
    /\ strong' = strong - 1
    /\ Freed(strong - 1)
    /\ spc' = "gone"
    /\ UNCHANGED <<rx, sarg, sres, rxAtCall, cresult, cunseen, clatest,
                   droppedAtPoll, cwoken>>

\* a poll that looks at dropped before it looks at the value
ReceiverResultDroppedFirst ==
    IF inner_dropped THEN Terminated
    ELSE IF inner_value # <<>> THEN Changed(inner_value[1])
    ELSE Pending

\* what Receiver::poll_change returns, lines 311-321
ReceiverResult ==
    IF inner_value # <<>> THEN Changed(inner_value[1])
    ELSE IF inner_dropped THEN Terminated
    ELSE Pending

\* Receiver::poll_change, under the mutex: take the value; Ready(Some(v))
\* when there was one, else Ready(None) when the Sender is dropped, else
\* store the waker and return Pending.
ReceiverPoll ==
    /\ rx = "alive"
    /\ cresult' = ReceiverResult
    /\ inner_value' = <<>>
    /\ inner_waker' = IF ReceiverResult = Pending THEN TRUE ELSE inner_waker
    /\ cwoken' = FALSE
    /\ cunseen' = IF cunseen > 0 THEN 0 - cunseen ELSE 0
    /\ droppedAtPoll' = inner_dropped
    /\ UNCHANGED <<inner_dropped, strong, rx, spc, sarg, sres, rxAtCall,
                   clatest>>

\* The Receiver is dropped: its Arc is released.
ReceiverDrop ==
    /\ rx = "alive"
    /\ rx' = "dropped"
    /\ strong' = strong - 1
    /\ Freed(strong - 1)
    /\ UNCHANGED <<spc, sarg, sres, rxAtCall, cresult, cunseen, clatest,
                   droppedAtPoll, cwoken>>

\* ------------------------------------------------------------------------
\* Broadcaster
\* ------------------------------------------------------------------------

\* results of the wrapped Signal's poll_change kept in `change`
NoChange == <<"nochange">>

\* Broadcaster::new(signal): not waiting, no targets, no cached value. The
\* wrapped Signal has value 0; `fresh` says whether it has it to report.
BroadcasterNew(fresh) ==
    /\ src_changed = fresh
    /\ src_value = 0
    /\ src_term = FALSE
    /\ src_waker = FALSE
    /\ upolls = 0
    /\ is_waiting = FALSE
    /\ targets = <<>>
    /\ tlock = NoProc
    /\ widx = 0
    /\ siglock = NoProc
    /\ cache = <<>>
    /\ bstate = [o \in BObs |-> "unborn"]
    /\ b_has_changed = [o \in BObs |-> FALSE]
    /\ b_waker = [o \in BObs |-> FALSE]
    /\ bpc = [p \in Procs |-> "idle"]
    /\ bchange = [p \in Procs |-> NoChange]
    /\ bresult = [o \in BObs |-> NoResult]
    /\ bwoken = [o \in BObs |-> FALSE]
    /\ bsince = [o \in BObs |-> "none"]
    /\ src_done = 0

\* the next BroadcasterStatus to allocate
NextBObs == CHOOSE o \in BObs : bstate[o] = "unborn" /\ \A p \in BObs : p < o => bstate[p] # "unborn"

\* Broadcaster::signal / signal_cloned -> BroadcasterState::new: the status is
\* allocated with has_changed = true and no waker, and its Weak is pushed
\* under the mutex of targets. At most n signals are derived.
DeriveBroadcast(n) ==
    /\ Cardinality({o \in BObs : bstate[o] # "unborn"}) < n
    /\ tlock = NoProc
    /\ LET o == NextBObs
       IN /\ bstate' = [bstate EXCEPT ![o] = "alive"]
          /\ b_has_changed' = [b_has_changed EXCEPT ![o] = TRUE]
          /\ b_waker' = [b_waker EXCEPT ![o] = FALSE]
          /\ targets' = Append(targets, o)
    /\ UNCHANGED <<src_changed, src_value, src_term, src_waker, upolls,
                   is_waiting, tlock, widx, siglock, cache, bpc, bchange,
                   bresult, bwoken>>
    /\ UNCHANGED <<bsince, src_done>>

\* The derived signal is dropped: its BroadcasterStatus is freed, the Weak in
\* targets stays behind.
DropBroadcast(o) ==
    /\ bstate[o] = "alive"
    /\ bpc[o] = "idle"
    /\ bstate' = [bstate EXCEPT ![o] = "dropped"]
    /\ b_has_changed' = [b_has_changed EXCEPT ![o] = FALSE]
    /\ b_waker' = [b_waker EXCEPT ![o] = FALSE]
    /\ bresult' = [bresult EXCEPT ![o] = NoResult]
    /\ bwoken' = [bwoken EXCEPT ![o] = FALSE]
    /\ bsince' = [bsince EXCEPT ![o] = "none"]
    /\ UNCHANGED <<src_changed, src_value, src_term, src_waker, upolls,
                   is_waiting, targets, tlock, widx, siglock, cache, bpc,
                   bchange, src_done>>

\* BroadcasterState::poll_change, line 113: clear the stored waker.
PollClearWaker(o) ==
    /\ bstate[o] = "alive"
    /\ bpc[o] = "idle"
    /\ b_waker' = [b_waker EXCEPT ![o] = FALSE]
    /\ bpc' = [bpc EXCEPT ![o] = "swapWaiting"]
    /\ UNCHANGED <<src_changed, src_value, src_term, src_waker, upolls,
                   is_waiting, targets, tlock, widx, siglock, cache, bstate,
                   b_has_changed, bchange, bresult, bwoken>>
    /\ UNCHANGED <<bsince, src_done>>

\* a poll_underlying that polls whatever is_waiting was
MustPollAlways(was_waiting) == TRUE

\* poll_underlying, line 68: the caller polls the wrapped Signal when
\* is_waiting was not set
MustPoll(was_waiting) == ~was_waiting

\* poll_underlying, line 68: is_waiting.swap(true).
SwapWaiting(o) ==
    /\ bpc[o] = "swapWaiting"
    /\ is_waiting' = TRUE
    /\ bpc' = [bpc EXCEPT ![o] = IF MustPoll(is_waiting) THEN "pollSignal"
                                  ELSE "swapChanged"]
    /\ UNCHANGED <<src_changed, src_value, src_term, src_waker, upolls,
                   targets, tlock, widx, siglock, cache, bstate,
                   b_has_changed, b_waker, bchange, bresult, bwoken>>
    /\ UNCHANGED <<bsince, src_done>>

\* what the wrapped Signal's poll_change returns: its value when it has a
\* change to report, Ready(None) when it has ended, else Pending
WrappedResult ==
    IF src_changed THEN Changed(src_value)
    ELSE IF src_term THEN Terminated
    ELSE Pending

\* a lock of the signal that does not wait for its holder
CanLockSignalAlways == TRUE

\* self.signal.lock(): blocks while another poll holds the mutex
CanLockSignal == siglock = NoProc

\* poll_underlying, line 71: lock the signal and call its poll_change with
\* the notifier as waker; a Pending poll leaves that waker with the Signal.
PollSignal(o) ==
    /\ bpc[o] = "pollSignal"
    /\ CanLockSignal
    /\ siglock' = o
    /\ bchange' = [bchange EXCEPT ![o] = WrappedResult]
    /\ src_changed' = FALSE
    /\ src_waker' = IF WrappedResult = Pending THEN TRUE ELSE src_waker
    /\ upolls' = IF upolls < MaxPolls THEN upolls + 1 ELSE upolls
    /\ bpc' = [bpc EXCEPT ![o] = "polled"]
    /\ bsince' = [q \in BObs |-> IF WrappedResult[1] = "changed" /\ bsince[q] = "stale"
                                  THEN "fresh" ELSE bsince[q]]
    /\ src_done' = IF src_done >= 1 THEN 2
                   ELSE IF WrappedResult = Terminated THEN 1 ELSE 0
    /\ UNCHANGED <<src_value, src_term, is_waiting, targets, tlock, widx,
                   cache, bstate, b_has_changed, b_waker, bresult, bwoken>>

\* poll_underlying, lines 71-73: poll_change returns and the mutex of the
\* signal is released; go on to store the value when it was Ready.
SignalReturn(o) ==
    /\ bpc[o] = "polled"
    /\ siglock' = NoProc
    /\ IF bchange[o] = Pending
       THEN /\ bpc' = [bpc EXCEPT ![o] = "swapChanged"]
            /\ bchange' = [bchange EXCEPT ![o] = NoChange]
       ELSE /\ bpc' = [bpc EXCEPT ![o] = "store"]
            /\ UNCHANGED bchange
    /\ UNCHANGED <<src_changed, src_value, src_term, src_waker, upolls,
                   is_waiting, targets, tlock, widx, cache, bstate,
                   b_has_changed, b_waker, bresult, bwoken>>
    /\ UNCHANGED <<bsince, src_done>>

\* poll_underlying, line 74: *self.value.write() = value.
StoreCache(o) ==
    /\ bpc[o] = "store"
    /\ cache' = IF bchange[o] = Terminated THEN <<>> ELSE <<bchange[o][2]>>
    /\ bchange' = [bchange EXCEPT ![o] = NoChange]
    /\ bpc' = [bpc EXCEPT ![o] = "notify"]
    /\ UNCHANGED <<src_changed, src_value, src_term, src_waker, upolls,
                   is_waiting, targets, tlock, widx, siglock, bstate,
                   b_has_changed, b_waker, bresult, bwoken>>
    /\ UNCHANGED <<bsince, src_done>>

\* BroadcasterNotifier::notify, line 25: lock targets and start the retain.
NotifyLock(p) ==
    /\ bpc[p] = "notify"
    /\ tlock = NoProc
    /\ IF targets = <<>>
       THEN /\ bpc' = [bpc EXCEPT ![p] = "clear"]
            /\ UNCHANGED <<tlock, widx>>
       ELSE /\ bpc' = [bpc EXCEPT ![p] = "walk"]
            /\ tlock' = p
            /\ widx' = 1
    /\ UNCHANGED <<src_changed, src_value, src_term, src_waker, upolls,
                   is_waiting, targets, siglock, cache, bstate, b_has_changed,
                   b_waker, bchange, bresult, bwoken>>
    /\ UNCHANGED <<bsince, src_done>>

\* the retain moves on: to the next entry, or out of notify at the end
WalkOn(p, next, len) ==
    IF next > len
    THEN /\ bpc' = [bpc EXCEPT ![p] = "clear"]
         /\ tlock' = NoProc
         /\ widx' = 0
    ELSE /\ bpc' = [bpc EXCEPT ![p] = "walk"]
         /\ widx' = next
         /\ UNCHANGED tlock

\* notify, lines 26-27 and 35-37: upgrade the entry; a dead one is removed,
\* a live one gets has_changed = true.
WalkStore(p) ==
    /\ bpc[p] = "walk"
    /\ LET o == targets[widx]
       IN IF bstate[o] = "alive"
          THEN /\ b_has_changed' = [b_has_changed EXCEPT ![o] = TRUE]
               /\ bpc' = [bpc EXCEPT ![p] = "take"]
               /\ UNCHANGED <<targets, tlock, widx>>
          ELSE /\ targets' = SubSeq(targets, 1, widx - 1)
                               \o SubSeq(targets, widx + 1, Len(targets))
               /\ WalkOn(p, widx, Len(targets) - 1)
               /\ UNCHANGED b_has_changed
    /\ UNCHANGED <<src_changed, src_value, src_term, src_waker, upolls,
                   is_waiting, siglock, cache, bstate, b_waker, bchange,
                   bresult, bwoken>>
    /\ UNCHANGED <<bsince, src_done>>

\* notify, lines 29-33: take the entry's waker and wake it; the entry stays.
WalkTake(p) ==
    /\ bpc[p] = "take"
    /\ LET o == targets[widx]
       IN /\ b_waker' = [b_waker EXCEPT ![o] = FALSE]
          /\ bwoken' = [bwoken EXCEPT ![o] = @ \/ b_waker[o]]
    /\ WalkOn(p, widx + 1, Len(targets))
    /\ UNCHANGED <<src_changed, src_value, src_term, src_waker, upolls,
                   is_waiting, targets, siglock, cache, bstate, b_has_changed,
                   bchange, bresult>>
    /\ UNCHANGED <<bsince, src_done>>

\* poll_underlying, line 76, and Wake::wake, line 45: is_waiting = false.
ClearWaiting(p) ==
    /\ bpc[p] = "clear"
    /\ is_waiting' = FALSE
    /\ bpc' = [bpc EXCEPT ![p] = IF p = WakeThread THEN "idle" ELSE "swapChanged"]
    /\ UNCHANGED <<src_changed, src_value, src_term, src_waker, upolls,
                   targets, tlock, widx, siglock, cache, bstate,
                   b_has_changed, b_waker, bchange, bresult, bwoken>>
    /\ UNCHANGED <<bsince, src_done>>

\* BroadcasterState::poll_change, line 123: has_changed.swap(false).
SwapChanged(o) ==
    /\ bpc[o] = "swapChanged"
    /\ b_has_changed' = [b_has_changed EXCEPT ![o] = FALSE]
    /\ bpc' = [bpc EXCEPT ![o] = IF b_has_changed[o] THEN "read" ELSE "storeWaker"]
    /\ UNCHANGED <<src_changed, src_value, src_term, src_waker, upolls,
                   is_waiting, targets, tlock, widx, siglock, cache, bstate,
                   b_waker, bchange, bresult, bwoken>>
    /\ UNCHANGED <<bsince, src_done>>

\* BroadcasterState::poll_change, line 124: Ready(f(value.read())), which is
\* Ready(None) when the cache holds None.
ReadCache(o) ==
    /\ bpc[o] = "read"
    /\ bresult' = [bresult EXCEPT ![o] = IF cache = <<>> THEN Terminated
                                          ELSE Changed(cache[1])]
    /\ bwoken' = [bwoken EXCEPT ![o] = FALSE]
    /\ bpc' = [bpc EXCEPT ![o] = "idle"]
    /\ bsince' = [bsince EXCEPT ![o] = IF cache = <<>> THEN @
                                         ELSE IF @ \in {"stale", "double"} THEN "double"
                                         ELSE "stale"]
    /\ UNCHANGED <<src_changed, src_value, src_term, src_waker, upolls,
                   is_waiting, targets, tlock, widx, siglock, cache, bstate,
                   b_has_changed, b_waker, bchange, src_done>>

\* BroadcasterState::poll_change, lines 128-129: store the caller's waker and
\* return Pending.
StoreWaker(o) ==
    /\ bpc[o] = "storeWaker"
    /\ b_waker' = [b_waker EXCEPT ![o] = TRUE]
    /\ bresult' = [bresult EXCEPT ![o] = Pending]
    /\ bwoken' = [bwoken EXCEPT ![o] = FALSE]
    /\ bpc' = [bpc EXCEPT ![o] = "idle"]
    /\ UNCHANGED <<src_changed, src_value, src_term, src_waker, upolls,
                   is_waiting, targets, tlock, widx, siglock, cache, bstate,
                   b_has_changed, bchange>>
    /\ UNCHANGED <<bsince, src_done>>

\* The wrapped Signal changes: it takes the next value, and when it holds the
\* notifier as waker it takes it and invokes Wake::wake, line 44.
SourceChange ==
    /\ ~src_term
    /\ src_waker => bpc[WakeThread] = "idle"
    /\ src_value' = (src_value + 1) % (MaxVal + 1)
    /\ src_changed' = TRUE
    /\ src_waker' = FALSE
    /\ upolls' = 0
    /\ bpc' = [bpc EXCEPT ![WakeThread] = IF src_waker THEN "notify" ELSE @]
    /\ UNCHANGED <<src_term, is_waiting, targets, tlock, widx, siglock, cache,
                   bstate, b_has_changed, b_waker, bchange, bresult, bwoken>>
    /\ UNCHANGED <<bsince, src_done>>

\* The wrapped Signal ends, and wakes the notifier in the same way.
SourceEnd ==
    /\ ~src_term
    /\ src_waker => bpc[WakeThread] = "idle"
    /\ src_term' = TRUE
    /\ src_waker' = FALSE
    /\ upolls' = 0
    /\ bpc' = [bpc EXCEPT ![WakeThread] = IF src_waker THEN "notify" ELSE @]
    /\ UNCHANGED <<src_changed, src_value, is_waiting, targets, tlock, widx,
                   siglock, cache, bstate, b_has_changed, b_waker, bchange,
                   bresult, bwoken>>
    /\ UNCHANGED <<bsince, src_done>>

\* ------------------------------------------------------------------------
\* Specifications
\* ------------------------------------------------------------------------

Init == MutableInit /\ Channel(0) /\ BroadcasterNew(TRUE)

Next ==
    \/ \E c \in Cells, v \in Vals : Set(c, v)
    \/ \E c \in Cells, v \in Vals : Replace(c, v)
    \/ \E c \in Cells, d \in Vals : ReplaceWith(c, d)
    \/ \E t \in Threads, a \in Cells, b \in Cells : SwapLockSelf(t, a, b)
    \/ \E t \in Threads : SwapLockOther(t)
    \/ \E c \in Cells : DeriveSignal(c)
    \/ \E c \in Cells : DropMutable(c)
    \/ \E o \in Obs : PollSwap(o)
    \/ \E o \in Obs : PollFinish(o)
    \/ \E o \in Obs : DropSignal(o)

Spec == Init /\ [][Next /\ UNCHANGED <<cvars, bvars>>]_vars

\* a channel, its Sender's thread and its Receiver's task
ChannelStart ==
    /\ MutableInit /\ value = [c \in Cells |-> 0]
    /\ ChannelInit
    /\ BroadcasterNew(TRUE)

ChannelNext ==
    \/ \E v \in Vals : SendUpgrade(v)
    \/ SendStore
    \/ SenderWake
    \/ SendReturn
    \/ SenderDropUpgrade
    \/ SenderDropStore
    \/ SenderDropReturn
    \/ ReceiverPoll
    \/ ReceiverDrop

ChannelSpec == ChannelStart /\ [][ChannelNext /\ UNCHANGED <<mvars, bvars>>]_vars

\* a Broadcaster around a Signal that changes and ends, the polls of its
\* derived signals and the thread that wakes the notifier
BroadcasterStart ==
    /\ MutableInit /\ value = [c \in Cells |-> 0]
    /\ Channel(0)
    /\ \E fresh \in BOOLEAN : BroadcasterNew(fresh)

BroadcasterNext ==
    \/ DeriveBroadcast(MaxBObs)
    \/ \E o \in BObs : DropBroadcast(o)
    \/ \E o \in BObs : PollClearWaker(o)
    \/ \E o \in BObs : SwapWaiting(o)
    \/ \E o \in BObs : PollSignal(o)
    \/ \E o \in BObs : SignalReturn(o)
    \/ \E o \in BObs : StoreCache(o)
    \/ \E p \in Procs : NotifyLock(p)
    \/ \E p \in Procs : WalkStore(p)
    \/ \E p \in Procs : WalkTake(p)
    \/ \E p \in Procs : ClearWaiting(p)
    \/ \E o \in BObs : SwapChanged(o)
    \/ \E o \in BObs : ReadCache(o)
    \/ \E o \in BObs : StoreWaker(o)
    \/ SourceChange
    \/ SourceEnd

BroadcasterSpec ==
    BroadcasterStart /\ [][BroadcasterNext /\ UNCHANGED <<mvars, cvars>>]_vars

\* the three-observer scenario: a Broadcaster around a Signal that reports
\* one change on its first poll and no change after it, and three derived
\* signals that are polled
CountStart ==
    /\ MutableInit /\ value = [c \in Cells |-> 0]
    /\ Channel(0)
    /\ BroadcasterNew(TRUE)

CountNext ==
    \/ DeriveBroadcast(Cardinality(CountObs))
    \/ \E o \in CountObs : PollClearWaker(o)
    \/ \E o \in CountObs : SwapWaiting(o)
    \/ \E o \in CountObs : PollSignal(o)
    \/ \E o \in CountObs : SignalReturn(o)
    \/ \E o \in CountObs : StoreCache(o)
    \/ \E o \in CountObs : NotifyLock(o)
    \/ \E o \in CountObs : WalkStore(o)
    \/ \E o \in CountObs : WalkTake(o)
    \/ \E o \in CountObs : ClearWaiting(o)
    \/ \E o \in CountObs : SwapChanged(o)
    \/ \E o \in CountObs : ReadCache(o)
    \/ \E o \in CountObs : StoreWaker(o)

CountSpec == CountStart /\ [][CountNext /\ UNCHANGED <<mvars, cvars>>]_vars

\* Mutables and a Broadcaster side by side, with signals derived, polled and
\* dropped and the collections walked: a run works on the Mutables or on the
\* Broadcaster, whichever it touches first
MutableUntouched == MutableInit /\ value = [c \in Cells |-> 0]

BroadcasterUntouched == BroadcasterNew(TRUE)

GcStart == CountStart

GcMutableNext ==
    \/ \E c \in Cells, v \in Vals : Set(c, v)
    \/ \E t \in Threads, a \in Cells, b \in Cells : SwapLockSelf(t, a, b)
    \/ \E t \in Threads : SwapLockOther(t)
    \/ \E c \in Cells : DeriveSignal(c)
    \/ \E c \in Cells : DropMutable(c)
    \/ \E o \in Obs : PollSwap(o)
    \/ \E o \in Obs : PollFinish(o)
    \/ \E o \in Obs : DropSignal(o)

GcBroadcasterNext ==
    \/ DeriveBroadcast(MaxBObs)
    \/ \E o \in BObs : DropBroadcast(o)
    \/ \E o \in BObs : PollClearWaker(o)
    \/ \E o \in BObs : SwapWaiting(o)
    \/ \E o \in BObs : PollSignal(o)
    \/ \E o \in BObs : SignalReturn(o)
    \/ \E o \in BObs : StoreCache(o)
    \/ \E p \in Procs : NotifyLock(p)
    \/ \E p \in Procs : WalkStore(p)
    \/ \E p \in Procs : WalkTake(p)
    \/ \E p \in Procs : ClearWaiting(p)
    \/ \E o \in BObs : SwapChanged(o)
    \/ \E o \in BObs : ReadCache(o)
    \/ \E o \in BObs : StoreWaker(o)
    \/ SourceChange

GcNext ==
    \/ BroadcasterUntouched /\ GcMutableNext /\ UNCHANGED <<cvars, bvars>>
    \/ MutableUntouched /\ GcBroadcasterNext /\ UNCHANGED <<mvars, cvars>>

GcSpec == GcStart /\ [][GcNext]_vars

\* ------------------------------------------------------------------------
\* Properties of Mutable
\* ------------------------------------------------------------------------

\* the signals that exist
Alive == {o \in Obs : ostate[o] = "alive"}

\* C1: with no write to and no drop of the Mutable since it was created, the
\* first poll of a derived signal returned changed(v0), and every later poll
\* returned Pending and left the caller's wake handle stored.
C1_FirstPollThenPending ==
    \A o \in Alive :
        (~written[ocell[o]] /\ senders[ocell[o]] = 1) =>
            /\ npolls[o] = 1 => result[o] = Changed(latest[ocell[o]])
            /\ npolls[o] = 2 => (result[o] = Pending /\ waker[o] /\ ~woken[o])

C1_Witness ==
    \E o \in Alive :
        /\ ~written[ocell[o]] /\ senders[ocell[o]] = 1
        /\ npolls[o] = 2 /\ result[o] = Pending /\ waker[o]

\* C2: after a write, every live signal of the cell keeps its has_changed
\* flag until its own next poll, whatever the other signals do; that poll
\* returned changed with the written value and cleared the flag, and the poll
\* after it (no further write, the Mutable alive) returned Pending.
C2_FanOut ==
    \A o \in Alive :
        (written[ocell[o]] /\ senders[ocell[o]] = 1) =>
            /\ npolls[o] = 0 => has_changed[o]
            /\ npolls[o] = 1 => (result[o] = Changed(latest[ocell[o]]) /\ ~has_changed[o])
            /\ npolls[o] = 2 => (result[o] = Pending /\ ~has_changed[o])

C2_Witness ==
    \E o \in Alive, p \in Alive :
        /\ o # p /\ ocell[o] = ocell[p]
        /\ written[ocell[o]] /\ senders[ocell[o]] = 1
        /\ npolls[o] = 2 /\ result[o] = Pending
        /\ npolls[p] = 1 /\ result[p] = Changed(latest[ocell[o]])

\* C3: a poll that came after one or more writes returned changed with the
\* value of the last of them, and any changed result equals the value the
\* cell held at that poll (no write has happened since: unseen <= 0).
C3_LatestValueWins ==
    \A o \in Alive :
        /\ unseen[o] < 0 => result[o] = Changed(latest[ocell[o]])
        /\ (unseen[o] <= 0 /\ result[o][1] = "changed")
               => result[o] = Changed(value[ocell[o]])
        /\ latest[ocell[o]] = value[ocell[o]]

C3_Witness ==
    \E o \in Alive :
        /\ unseen[o] = -2
        /\ result[o] = Changed(latest[ocell[o]])
        /\ latest[ocell[o]] # 0

\* C4 as stated: once the Mutable is dropped, the next poll of a derived
\* signal and every poll after it returned terminated, whatever the signal
\* had seen before the drop.
C4_TerminatedRightAfterDrop ==
    \A o \in Alive :
        (senders[ocell[o]] = 0 /\ npolls[o] >= 1) => result[o] = Terminated

\* C4 amended: once the Mutable is dropped, the next poll of a derived signal
\* returned terminated when the signal's has_changed flag was clear at the
\* drop, and changed with the final value when it was set; every poll after
\* that one returned terminated.
C4_TerminatedAfterDrop ==
    \A o \in Alive :
        senders[ocell[o]] = 0 =>
            /\ npolls[o] = 1 =>
                   result[o] = IF flagAtDrop[o] THEN Changed(latest[ocell[o]])
                               ELSE Terminated
            /\ npolls[o] = 2 => result[o] = Terminated

C4_Witness ==
    \E o \in Alive :
        /\ senders[ocell[o]] = 0
        /\ flagAtDrop[o]
        /\ npolls[o] = 2 /\ result[o] = Terminated

\* C8: no state in which two threads are inside swap, each holding the write
\* lock of its own cell and waiting for the lock the other holds.
C8_NoSwapDeadlock ==
    ~ \E t \in Threads, u \in Threads :
        /\ t # u
        /\ top[t] = "swap1" /\ top[u] = "swap1"
        /\ wlock[tcell[t]] = t /\ wlock[tcell[u]] = u
        /\ tother[t] = tcell[u] /\ tother[u] = tcell[t]

\* C10: a signal never has its has_changed flag set while a wake handle is
\* stored; a wake handle stored by a Pending poll that is no longer stored
\* has been invoked; and after a write every live signal of the cell has the
\* flag set, so its next poll returns changed.
C10_NoLostWakeup ==
    \A o \in Alive :
        /\ has_changed[o] => ~waker[o]
        /\ (result[o] = Pending /\ ~waker[o]) => woken[o]
        /\ (unseen[o] > 0) => has_changed[o]

C10_Witness ==
    \E o \in Alive :
        /\ result[o] = Pending /\ woken[o] /\ ~waker[o]
        /\ has_changed[o] /\ unseen[o] > 0

\* Mutable::get / with_ref: the value read under the read lock
Get(c) == value[c]

\* every live signal of cell c has has_changed set after this step
Flagged(c) == \A o \in Alive : ocell[o] = c => has_changed'[o]

\* a.swap(b) returns in this step
SwapReturns(a, b) ==
    \E t \in Threads : SwapLockOther(t) /\ tcell[t] = a /\ tother[t] = b

\* C20: replace(v) returns the value the cell held and leaves v in it,
\* replace_with returns the value the cell held, set(v) leaves v in the cell,
\* and swap exchanges the values of its two cells; after each of them get
\* reads the new value and every live signal of each written cell has
\* has_changed set.
C20_WritesMutateThenNotify ==
    [][/\ \A c \in Cells, v \in Vals :
              /\ (ret' = <<value[c]>> /\ Get(c)' = v /\ Flagged(c))
                     \/ ~Replace(c, v)
              /\ (ret' = <<value[c]>> /\ Flagged(c)) \/ ~ReplaceWith(c, v)
              /\ (Get(c)' = v /\ Flagged(c)) \/ ~Set(c, v)
       /\ \A a \in Cells, b \in Cells :
              \/ /\ Get(a)' = Get(b) /\ Get(b)' = Get(a)
                 /\ Flagged(a) /\ Flagged(b)
              \/ ~SwapReturns(a, b)]_vars

\* a replace has returned a value other than the one now in the cell, and a
\* live signal of a written cell is flagged
C20_Witness ==
    \E o \in Alive :
        /\ ret # <<>> /\ ret # <<value[ocell[o]]>>
        /\ written[ocell[o]] /\ unseen[o] > 0 /\ has_changed[o]
        /\ value[1] # value[2]

\* C16: once the sender count of a Mutable has reached zero its receiver
\* collection is empty, no live signal of it has a wake handle stored, a
\* signal whose last poll returned Pending has had its handle invoked, and
\* until its next poll each signal's has_changed is what it was at the drop.
C16_DropWakesAll ==
    \A c \in Cells :
        senders[c] = 0 =>
            /\ receivers[c] = <<>>
            /\ \A o \in Alive :
                   ocell[o] = c =>
                       /\ ~waker[o]
                       /\ result[o] = Pending => woken[o]
                       /\ npolls[o] = 0 => has_changed[o] = flagAtDrop[o]

\* a signal that was suspended with its flag clear has been woken by the drop
C16_Witness ==
    \E o \in Alive :
        /\ senders[ocell[o]] = 0
        /\ result[o] = Pending /\ woken[o]
        /\ ~has_changed[o] /\ ~flagAtDrop[o] /\ npolls[o] = 0

\* a poll of signal o returns in this step with has_changed found set
PollDelivers(o) == PollSwap(o) /\ has_changed[o]

\* C17: a poll that found has_changed set returns changed with the cell's
\* value, whatever the sender count; a poll that found it clear returns
\* terminated exactly when the sender count is zero; so terminated is never
\* returned while the Mutable is alive, and a signal whose flag was set at
\* the drop returns the final value on its first poll after the drop.
C17_TerminatedIffUnchangedAndNoSender ==
    /\ [](\A o \in Alive :
             /\ result[o] = Terminated => senders[ocell[o]] = 0
             /\ (senders[ocell[o]] = 0 /\ flagAtDrop[o] /\ npolls[o] = 1)
                    => result[o] = Changed(latest[ocell[o]]))
    /\ [][\A o \in Obs :
             /\ PollDelivers(o) => result'[o] = Changed(value[ocell[o]])
             /\ PollFinish(o) =>
                    /\ ~has_changed[o]
                    /\ result'[o] = Terminated <=> senders[ocell[o]] = 0]_vars

\* the flag was set at the drop: changed with the final value came first,
\* then terminated
C17_Witness ==
    \E o \in Alive :
        /\ senders[ocell[o]] = 0 /\ flagAtDrop[o]
        /\ npolls[o] = 2 /\ result[o] = Terminated
        /\ written[ocell[o]]

\* C18 as stated: the first step of a poll clears the stored wake handle, so
\* a poll that has gone past its first step holds none.
C18_PollClearsWakerFirst ==
    \A o \in Alive : opc[o] = "unchanged" => ~waker[o]

\* C18 amended: a poll does not clear the stored wake handle; the handle is
\* taken by the notify of a write or of the drop, or replaced by the next
\* Pending poll. A signal whose last poll returned changed or terminated
\* holds no wake handle, and a signal holds one only while its has_changed
\* flag is clear and the sender count is not zero.
C18_WakerOnlyWhileSuspended ==
    \A o \in Alive :
        /\ result[o][1] \in {"changed", "terminated"} => ~waker[o]
        /\ waker[o] => (~has_changed[o] /\ senders[ocell[o]] > 0)
        /\ waker[o] => result[o] = Pending

\* a poll is past its first step and the handle of the last Pending poll is
\* still stored
C18_Witness ==
    \E o \in Alive :
        opc[o] = "unchanged" /\ waker[o] /\ result[o] = Pending

\* ------------------------------------------------------------------------
\* Properties of the channel
\* ------------------------------------------------------------------------

\* C6: a value stored by channel() or by send stays in the slot until the
\* next poll, only the last one stored; a poll that came after one or more
\* stores returned changed with the last of them, also when the Sender was
\* dropped in between; a poll with nothing stored returned terminated when
\* the Sender's drop had set the flag and Pending otherwise; terminated is
\* never returned while the Sender has not been dropped.
C6_OverwriteThenTerminate ==
    /\ (rx = "alive" /\ cunseen > 0) => inner_value = <<clatest>>
    /\ cunseen < 0 => cresult = Changed(clatest)
    /\ cunseen = 0 => cresult = IF droppedAtPoll THEN Terminated ELSE Pending
    /\ cresult = Terminated => spc \in {"dropWake", "dropRet", "gone"}

C6_Witness ==
    /\ rx = "alive"
    /\ droppedAtPoll
    /\ cunseen = -2
    /\ cresult = Changed(clatest)

\* C7: send returns Err with the value it was given when the Receiver was
\* dropped at the call, and Ok when the Receiver was alive; once the Inner is
\* freed nothing is stored in it and the Sender is in no store or wake step.
C7_SendToDroppedReceiver ==
    /\ sres # NoResult => sres = IF rxAtCall THEN Ok ELSE Err(sarg)
    /\ strong = 0 =>
           /\ inner_value = <<>> /\ ~inner_waker /\ ~inner_dropped
           /\ spc \in {"idle", "gone"}
    /\ rx = "alive" => sres \in {NoResult, Ok}

C7_Witness ==
    /\ rx = "dropped"
    /\ ~rxAtCall
    /\ sres = Err(sarg)
    /\ sarg # 0

\* C19: while the Receiver lives, a wake handle is stored only after a
\* Pending poll and only while the slot is empty and dropped is unset; a
\* handle that a Pending poll stored and that is no longer stored has been
\* taken by send or by the Sender's drop, which has invoked it or is about
\* to; so the Receiver is never left with a value or a termination pending
\* and its handle neither stored nor invoked.
C19_ChannelWakeup ==
    rx = "alive" =>
        /\ inner_waker => (inner_value = <<>> /\ ~inner_dropped /\ cresult = Pending)
        /\ (cresult = Pending /\ ~inner_waker)
               => (cwoken \/ spc \in {"sendWake", "dropWake"})
        /\ (cresult = Pending /\ (inner_value # <<>> \/ inner_dropped)
                /\ spc \in {"idle", "gone"}) => cwoken

\* the Receiver was suspended, the Sender stored a value and then was
\* dropped, and the handle has been invoked
C19_Witness ==
    /\ rx = "alive"
    /\ cresult = Pending /\ cwoken /\ ~inner_waker
    /\ inner_value # <<>> /\ inner_dropped
    /\ spc = "gone"

\* ------------------------------------------------------------------------
\* Properties of the Broadcaster
\* ------------------------------------------------------------------------

\* every derived signal has returned from at least one poll
AllPolled == \A o \in CountObs : bstate[o] = "alive" /\ bresult[o] # NoResult

\* C5 as stated: when the three derived signals have each been polled, the
\* wrapped Signal has been polled exactly once in total.
C5_PolledExactlyOnce == AllPolled => upolls = 1

\* C5 amended: when the three derived signals have each been polled, the
\* wrapped Signal has been polled once or twice in total: one poll took the
\* change, and at most one more returned Pending and left the notifier as
\* the wrapped Signal's waker; it is never polled once per signal.
C5_PolledOnceOrTwice ==
    /\ upolls <= 2
    /\ upolls = 2 => src_waker
    /\ AllPolled => (upolls >= 1 /\ ~src_changed)

C5_Witness == AllPolled /\ upolls = 2 /\ src_waker

\* C9: no state in which every poll has returned and no wake is running, a
\* derived signal's last poll returned Pending, its has_changed flag is set,
\* its wake handle is still stored, and the wrapped Signal has no further
\* change to report.
C9_NoLostBroadcastWakeup ==
    ~ \E o \in BObs :
        /\ \A p \in Procs : bpc[p] = "idle"
        /\ bstate[o] = "alive"
        /\ bresult[o] = Pending
        /\ b_has_changed[o]
        /\ b_waker[o]
        /\ ~src_changed

\* C11: a derived signal never returns two changed results with no new
\* change reported by the wrapped Signal between them.
C11_NoDoubleDelivery == \A o \in BObs : bsince[o] # "double"

\* C13: the wrapped Signal is not polled again once it has returned
\* Ready(None).
C13_NoPollAfterTerminated == src_done <= 1

\* C14: a derived signal returns terminated only when the wrapped Signal has
\* returned Ready(None).
C14_TerminatedOnlyAfterSource ==
    \A o \in BObs : bresult[o] = Terminated => src_done >= 1

\* C15: at most one process is inside the wrapped Signal's poll_change.
C15_OnePollAtATime == Cardinality({o \in BObs : bpc[o] = "polled"}) <= 1

\* a poll waits for the mutex of the signal while another one is inside
\* poll_change, although is_waiting was clear when it looked
C15_Witness ==
    \E o \in BObs, q \in BObs :
        /\ o # q
        /\ bpc[o] = "polled" /\ siglock = o
        /\ bpc[q] = "pollSignal"

\* ------------------------------------------------------------------------
\* Properties of the receiver and target collections
\* ------------------------------------------------------------------------

\* this step drops a derived signal and leaves both collections as they were
DropKeepsEntries ==
    /\ \A o \in Obs : (ostate[o] = "alive" /\ ostate'[o] = "dropped")
                           => receivers' = receivers
    /\ \A o \in BObs : (bstate[o] = "alive" /\ bstate'[o] = "dropped")
                           => targets' = targets

\* this step is a write to cell c: its notify(true) walks receivers[c]
WriteWalk(c) ==
    \/ \E v \in Vals : Write(c, v)
    \/ \E t \in Threads : SwapLockOther(t) /\ c \in {tcell[t], tother[t]}

\* this step is the drop of the last sender of cell c: its notify(false)
\* walks receivers[c]
DropWalk(c) ==
    DropMutable(c) /\ senders[c] = 1 /\ Len(receivers[c]) > 0

\* the walk of this step takes and invokes the wake handle of every live
\* entry of receivers[c]
WalkWakes(c) ==
    \A o \in Range(receivers[c]) :
        ostate[o] = "alive" => (~waker'[o] /\ (waker[o] => woken'[o]))

\* the walk of this step sets has_changed of every live entry of
\* receivers[c]
WalkFlags(c) ==
    \A o \in Range(receivers[c]) : ostate[o] = "alive" => has_changed'[o]

\* the walk of this step leaves exactly the live entries in receivers[c]
WalkPrunes(c) ==
    /\ Range(receivers'[c]) = {o \in Range(receivers[c]) : ostate[o] = "alive"}
    /\ Len(receivers'[c]) = Cardinality(Range(receivers'[c]))

\* the walk of this step leaves every has_changed as it was, and the
\* collection is empty after it
WalkKeepsFlagsAndClears(c) ==
    /\ has_changed' = has_changed
    /\ receivers'[c] = <<>>

\* a step of the Broadcaster's notify walk does to the entry it visits what
\* the retain says: a live entry gets has_changed = true and stays, then its
\* wake handle is taken and invoked; a dead entry is removed; no other entry
\* is touched
TargetsWalk ==
    \A p \in Procs :
        /\ WalkStore(p) =>
              LET o == targets[widx]
              IN IF bstate[o] = "alive"
                 THEN b_has_changed'[o] /\ targets' = targets
                 ELSE /\ Len(targets') = Len(targets) - 1
                      /\ \A i \in 1..Len(targets') :
                             targets'[i] = targets[IF i < widx THEN i ELSE i + 1]
        /\ WalkTake(p) =>
              LET o == targets[widx]
              IN /\ ~b_waker'[o] /\ (b_waker[o] => bwoken'[o])
                 /\ targets' = targets
        /\ (bpc[p] \in {"walk", "take"} /\ bpc'[p] = "clear") =>
              \A i \in 1..Len(targets') : i < widx + 1

\* C12 as stated: dropping a derived signal leaves the collection alone, and
\* every notify walk after it, the one of the Mutable's drop included, sets
\* has_changed of each live entry and takes and invokes its wake handle; the
\* walk of a write leaves exactly the live entries in the collection.
C12_EveryWalkFlagsAndPrunes ==
    [][/\ DropKeepsEntries
       /\ \A c \in Cells : (WalkWakes(c) /\ WalkFlags(c) /\ WalkPrunes(c))
                               \/ ~WriteWalk(c)
       /\ \A c \in Cells : (WalkWakes(c) /\ WalkFlags(c))
                               \/ ~DropWalk(c)
       /\ TargetsWalk]_vars

\* C12 amended: dropping a derived signal leaves the collection alone; the
\* notify walk of a write, and each step of the Broadcaster's notify walk,
\* sets has_changed of each live entry, takes and invokes its wake handle and
\* removes the dead entries, leaving exactly the entries that were alive
\* when the walk visited them; the walk of the Mutable's drop takes and
\* invokes the wake handles, leaves every has_changed as it was and leaves
\* the collection empty.
C12_LazyGc ==
    [][/\ DropKeepsEntries
       /\ \A c \in Cells : (WalkWakes(c) /\ WalkFlags(c) /\ WalkPrunes(c))
                               \/ ~WriteWalk(c)
       /\ \A c \in Cells : (WalkWakes(c) /\ WalkKeepsFlagsAndClears(c))
                               \/ ~DropWalk(c)
       /\ TargetsWalk]_vars

\* a dropped signal of a live, written Mutable is no longer in receivers,
\* and a live signal of the same cell has been flagged and woken
C12_Witness ==
    \E o \in Obs, q \in Obs :
        /\ ostate[o] = "dropped" /\ ostate[q] = "alive"
        /\ ocell[o] = ocell[q]
        /\ senders[ocell[q]] = 1 /\ written[ocell[q]]
        /\ receivers[ocell[q]] = <<q>>
        /\ has_changed[q] /\ woken[q] /\ result[q] = Pending

====
